---- MODULE Spec2Model ----
(***************************************************************************)
(* State-machine model of the segmented, lock-protected allocator of       *)
(* src/my_malloc.c: my_malloc, my_free, free_base_memory and their helpers *)
(* (initialize_allocator, find_best_fit, split_block, merge_blocks,        *)
(* wait_for_free_block).  Addresses are byte addresses, block headers are  *)
(* records stored at the address of the header, and every header ever      *)
(* written stays in memory (a header absorbed by merge_blocks is abandoned *)
(* in place, exactly as in the C code).                                    *)
(***************************************************************************)
EXTENDS Integers, FiniteSets, Sequences, Bags, TLC

(* ------------------------------------------------------------------ *)
(* Program constants                                                    *)
(* ------------------------------------------------------------------ *)
NULL == 0
NUM_SEGMENTS == 5
TOTAL_SIZE == 104857600
MIN_SPLIT_SIZE == 32
LARGE_SIZE == 4194304
\* sizeof(block_header) on an LP64 target: 8 + 8 + 8 + 1 (+3 pad) + 4
HEADER_SIZE == 32
\* (TOTAL_SIZE * 20/100) / (NUM_SEGMENTS-1), truncated to size_t
SEG_1_TO_4_SIZE == ((TOTAL_SIZE \div 100) * 20) \div (NUM_SEGMENTS - 1)
\* TOTAL_SIZE * 80/100, truncated to size_t
SEG_5_SIZE == (TOTAL_SIZE \div 100) * 80
\* return code of pthread_cond_timedwait once the deadline has passed
ETIMEDOUT == 110
\* address returned by the host malloc(TOTAL_SIZE)
HostBase == 4096

(* ------------------------------------------------------------------ *)
(* Bounds of the model                                                  *)
(* ------------------------------------------------------------------ *)
\* calls per run when every request size is offered
MaxOps == 3
\* calls per run when few request sizes are offered
MaxDeepOps == 5
\* spurious wakeups of pthread_cond_timedwait per run
MaxSpurious == 1

Threads == {1, 2}
NoThread == 0
SegIds == 0..(NUM_SEGMENTS - 1)
LARGE_SEG == NUM_SEGMENTS - 1

\* Request sizes offered to my_malloc (all with size + sizeof(block_header)
\* representable in size_t):
\*   MidReq         <= LARGE_SIZE, fits a fresh small segment once
\*   AboveLargeReq  >  LARGE_SIZE, still fits a fresh small segment
\*   SixReq         larger than a small segment, fits the large one many times
\*   HalfPlusReq    more than half of the large segment
\*   ExactLargeReq  consumes the large segment's initial block with no tail
\*   OversizeReq    more than the whole backing region
MidReq == 3145728
AboveLargeReq == LARGE_SIZE + 1
SixReq == 6291456
HalfPlusReq == 52428800
ExactLargeReq == SEG_5_SIZE - HEADER_SIZE - HEADER_SIZE
OversizeReq == TOTAL_SIZE + 1
Sizes == {MidReq, AboveLargeReq, SixReq, HalfPlusReq, ExactLargeReq, OversizeReq}
DeepSizes == {MidReq, ExactLargeReq}

VARIABLES
    initialized,        \* static bool initialized (my_malloc)
    current_segment,    \* static int current_segment (my_malloc)
    init_mutex,         \* holder of init_mutex, NoThread when unlocked
    round_robin_mutex,  \* holder of round_robin_mutex
    mutex_destroyed,    \* TRUE once init_mutex/round_robin_mutex were destroyed
    base_ptr,           \* static void* base_ptr
    segments,           \* static segment* segments: <<>> for NULL, else [SegIds -> record]
    lock,               \* holder of each segment's lock
    released,           \* TRUE once free_base_memory released region and array
    mem,                \* block headers by address
    pc,                 \* position of each thread
    req,                \* size argument of the thread's current my_malloc
    seg_id,             \* local seg_id (my_malloc, my_free)
    wseg,               \* segment passed to wait_for_free_block
    rc,                 \* return code of the last pthread_cond_timedwait
    fptr,               \* my_free: the argument ptr, then the header hdr
    live,               \* bag of allocations handed out and not yet released: <<ptr, size>>
    waited,             \* segments whose condition variable the current call waited on
    spurious,           \* spurious wakeups delivered so far
    ops,                \* calls issued so far
    last                \* the last call that returned: name, argument, result

vars == <<initialized, current_segment, init_mutex, round_robin_mutex, mutex_destroyed,
          base_ptr, segments, lock, released, mem, pc, req, seg_id, wseg, rc, fptr,
          live, waited, spurious, ops, last>>

globals == <<initialized, current_segment, base_ptr, segments, released>>
mutexes == <<init_mutex, round_robin_mutex, mutex_destroyed>>
locals == <<req, seg_id, wseg, rc, fptr>>

(* ------------------------------------------------------------------ *)
(* Memory helpers                                                       *)
(* ------------------------------------------------------------------ *)
Put(m, a, h) == [x \in (DOMAIN m) \cup {a} |-> IF x = a THEN h ELSE m[x]]
SetNext(m, a, v) == [m EXCEPT ![a].next = v]
SetPrev(m, a, v) == [m EXCEPT ![a].prev = v]
SetSize(m, a, v) == [m EXCEPT ![a].size = v]
SetFree(m, a, v) == [m EXCEPT ![a].free = v]
SetSegId(m, a, v) == [m EXCEPT ![a].segment_id = v]

SegSize(i) == IF i < NUM_SEGMENTS - 1 THEN SEG_1_TO_4_SIZE ELSE SEG_5_SIZE
SegStart(i) == HostBase + i * SEG_1_TO_4_SIZE

\* initialize_allocator, success path: the segment array and the initial headers
InitialSegments ==
    [i \in SegIds |-> [size |-> SegSize(i), start_ptr |-> SegStart(i),
                       free_list |-> SegStart(i)]]
InitialMem ==
    [a \in {SegStart(i) : i \in SegIds} |->
        LET i == CHOOSE j \in SegIds : SegStart(j) = a
        IN [size |-> SegSize(i) - HEADER_SIZE, next |-> NULL, prev |-> NULL,
            free |-> TRUE, segment_id |-> i]]

\* find_best_fit: the loop, with current and best_fit as arguments
RECURSIVE BestFitFrom(_, _, _, _)
BestFitFrom(m, current, best_fit, size) ==
    IF current = NULL THEN best_fit
    ELSE LET better == /\ m[current].free
                       /\ m[current].size >= size
                       /\ (best_fit = NULL \/ m[current].size < m[best_fit].size)
         IN BestFitFrom(m, m[current].next, IF better THEN current ELSE best_fit, size)

\* find_best_fit without the test of the free flag (line 127)
RECURSIVE BestFitIgnoringFree(_, _, _, _)
BestFitIgnoringFree(m, current, best_fit, size) ==
    IF current = NULL THEN best_fit
    ELSE LET better == /\ m[current].size >= size
                       /\ (best_fit = NULL \/ m[current].size < m[best_fit].size)
         IN BestFitIgnoringFree(m, m[current].next,
                                IF better THEN current ELSE best_fit, size)

find_best_fit_ignoring_free(m, free_list, size) ==
    BestFitIgnoringFree(m, free_list, NULL, size)

\* find_best_fit with <= for < in line 128: the last of several equal blocks wins
RECURSIVE BestFitLastWins(_, _, _, _)
BestFitLastWins(m, current, best_fit, size) ==
    IF current = NULL THEN best_fit
    ELSE LET better == /\ m[current].free
                       /\ m[current].size >= size
                       /\ (best_fit = NULL \/ m[current].size <= m[best_fit].size)
         IN BestFitLastWins(m, m[current].next, IF better THEN current ELSE best_fit, size)

find_best_fit_last_wins(m, free_list, size) == BestFitLastWins(m, free_list, NULL, size)

find_best_fit(m, free_list, size) == BestFitFrom(m, free_list, NULL, size)

\* split_block that also unlinks a block handed out whole, dropping it from the list
split_block_unlinking_whole(m, free_list, block, size) ==
    IF m[block].size - size >= MIN_SPLIT_SIZE + HEADER_SIZE
    THEN LET new_block == block + HEADER_SIZE + size
             m1 == Put(m, new_block,
                       [size |-> m[block].size - size - HEADER_SIZE,
                        next |-> m[block].next, prev |-> m[block].prev,
                        free |-> TRUE, segment_id |-> m[block].segment_id])
             m2 == IF m[block].next # NULL THEN SetPrev(m1, m[block].next, new_block) ELSE m1
             m3 == IF m[block].prev # NULL THEN SetNext(m2, m[block].prev, new_block) ELSE m2
             m4 == SetFree(SetSize(m3, block, size), block, FALSE)
         IN [mem |-> m4, free_list |-> IF free_list = block THEN new_block ELSE free_list]
    ELSE LET m1 == IF m[block].prev # NULL
                   THEN SetNext(m, m[block].prev, m[block].next) ELSE m
             m2 == IF m[block].next # NULL
                   THEN SetPrev(m1, m[block].next, m[block].prev) ELSE m1
         IN [mem |-> m2,
             free_list |-> IF free_list = block THEN m[block].next ELSE free_list]

\* split_block reading the new head (line 163) from block->next as it was on entry
split_block_head_from_old_next(m, free_list, block, size) ==
    IF m[block].size - size >= MIN_SPLIT_SIZE + HEADER_SIZE
    THEN LET new_block == block + HEADER_SIZE + size
             m1 == Put(m, new_block,
                       [size |-> m[block].size - size - HEADER_SIZE,
                        next |-> m[block].next, prev |-> NULL,
                        free |-> TRUE, segment_id |-> m[block].segment_id])
             \* if(new_block->next != NULL) block->next->prev = new_block;
             m2 == IF m1[new_block].next # NULL
                   THEN SetPrev(m1, m1[block].next, new_block) ELSE m1
             \* new_block->prev = block; block->next = new_block;
             m3 == SetNext(SetPrev(m2, new_block, block), block, new_block)
             \* block->size = size; block->free = FALSE;
             m4 == SetFree(SetSize(m3, block, size), block, FALSE)
             \* if(block->prev != NULL) block->prev->next = block->next;
             m5 == IF m4[block].prev # NULL
                   THEN SetNext(m4, m4[block].prev, m4[block].next) ELSE m4
             \* if(block->next != NULL) block->next->prev = block->prev;
             m6 == IF m5[block].next # NULL
                   THEN SetPrev(m5, m5[block].next, m5[block].prev) ELSE m5
         IN [mem |-> m6,
             free_list |-> IF free_list = block THEN m[block].next ELSE free_list]
    ELSE [mem |-> m, free_list |-> free_list]

\* split_block without lines 162-164: the head stays on the allocated block
split_block_keeping_head(m, free_list, block, size) ==
    IF m[block].size - size >= MIN_SPLIT_SIZE + HEADER_SIZE
    THEN LET new_block == block + HEADER_SIZE + size
             m1 == Put(m, new_block,
                       [size |-> m[block].size - size - HEADER_SIZE,
                        next |-> m[block].next, prev |-> NULL,
                        free |-> TRUE, segment_id |-> m[block].segment_id])
             \* if(new_block->next != NULL) block->next->prev = new_block;
             m2 == IF m1[new_block].next # NULL
                   THEN SetPrev(m1, m1[block].next, new_block) ELSE m1
             \* new_block->prev = block; block->next = new_block;
             m3 == SetNext(SetPrev(m2, new_block, block), block, new_block)
             \* block->size = size; block->free = FALSE;
             m4 == SetFree(SetSize(m3, block, size), block, FALSE)
             \* if(block->prev != NULL) block->prev->next = block->next;
             m5 == IF m4[block].prev # NULL
                   THEN SetNext(m4, m4[block].prev, m4[block].next) ELSE m4
             \* if(block->next != NULL) block->next->prev = block->prev;
             m6 == IF m5[block].next # NULL
                   THEN SetPrev(m5, m5[block].next, m5[block].prev) ELSE m5
         IN [mem |-> m6,
             free_list |-> free_list]
    ELSE [mem |-> m, free_list |-> free_list]

\* split_block: returns the memory and the segment's free_list after the call
split_block(m, free_list, block, size) ==
    IF m[block].size - size >= MIN_SPLIT_SIZE + HEADER_SIZE
    THEN LET new_block == block + HEADER_SIZE + size
             m1 == Put(m, new_block,
                       [size |-> m[block].size - size - HEADER_SIZE,
                        next |-> m[block].next, prev |-> NULL,
                        free |-> TRUE, segment_id |-> m[block].segment_id])
             \* if(new_block->next != NULL) block->next->prev = new_block;
             m2 == IF m1[new_block].next # NULL
                   THEN SetPrev(m1, m1[block].next, new_block) ELSE m1
             \* new_block->prev = block; block->next = new_block;
             m3 == SetNext(SetPrev(m2, new_block, block), block, new_block)
             \* block->size = size; block->free = FALSE;
             m4 == SetFree(SetSize(m3, block, size), block, FALSE)
             \* if(block->prev != NULL) block->prev->next = block->next;
             m5 == IF m4[block].prev # NULL
                   THEN SetNext(m4, m4[block].prev, m4[block].next) ELSE m4
             \* if(block->next != NULL) block->next->prev = block->prev;
             m6 == IF m5[block].next # NULL
                   THEN SetPrev(m5, m5[block].next, m5[block].prev) ELSE m5
         IN [mem |-> m6,
             free_list |-> IF free_list = block THEN m6[block].next ELSE free_list]
    ELSE [mem |-> m, free_list |-> free_list]

\* merge_blocks: returns the memory after the call
merge_blocks(m, block1, block2) ==
    LET m1 == IF m[block2].prev # NULL
              THEN SetNext(m, m[block2].prev, m[block2].next) ELSE m
        m2 == IF m1[block2].next # NULL
              THEN SetPrev(m1, m1[block2].next, m1[block2].prev) ELSE m1
        m3 == SetSize(m2, block1, m2[block1].size + m2[block2].size + HEADER_SIZE)
        m4 == SetNext(m3, block1, m3[block2].next)
    IN IF m4[block2].next # NULL THEN SetPrev(m4, m4[block2].next, block1) ELSE m4

\* my_free, lines 297-306: mark free, coalesce with prev, then with next
Coalesce(m, hdr0) ==
    LET m0 == SetFree(m, hdr0, TRUE)
        p == m0[hdr0].prev
        withPrev == /\ p # NULL
                    /\ m0[p].free
                    /\ p + HEADER_SIZE + m0[p].size = hdr0
        m1 == IF withPrev THEN merge_blocks(m0, p, hdr0) ELSE m0
        hdr == IF withPrev THEN m1[hdr0].prev ELSE hdr0
        n == m1[hdr].next
        withNext == /\ n # NULL
                    /\ m1[n].free
                    /\ hdr + HEADER_SIZE + m1[hdr].size = n
    IN IF withNext THEN merge_blocks(m1, hdr, n) ELSE m1

(* ------------------------------------------------------------------ *)
(* Initial state: nothing allocated, static mutexes initialized         *)
(* ------------------------------------------------------------------ *)
NoCall == [op |-> "none", arg |-> 0, result |-> NULL]

Init ==
    /\ initialized = FALSE
    /\ current_segment = 0
    /\ init_mutex = NoThread
    /\ round_robin_mutex = NoThread
    /\ mutex_destroyed = FALSE
    /\ base_ptr = NULL
    /\ segments = <<>>
    /\ lock = [i \in SegIds |-> NoThread]
    /\ released = FALSE
    /\ mem = <<>>
    /\ pc = [t \in Threads |-> "idle"]
    /\ req = [t \in Threads |-> 0]
    /\ seg_id = [t \in Threads |-> 0]
    /\ wseg = [t \in Threads |-> 0]
    /\ rc = [t \in Threads |-> 0]
    /\ fptr = [t \in Threads |-> NULL]
    /\ live = EmptyBag
    /\ waited = [t \in Threads |-> {}]
    /\ spurious = 0
    /\ ops = 0
    /\ last = NoCall

\* the thread's frame is gone once its call has returned
Return(t, op, arg, result) ==
    /\ pc' = [pc EXCEPT ![t] = "idle"]
    /\ last' = [op |-> op, arg |-> arg, result |-> result]
    /\ req' = [req EXCEPT ![t] = 0]
    /\ seg_id' = [seg_id EXCEPT ![t] = 0]
    /\ wseg' = [wseg EXCEPT ![t] = 0]
    /\ fptr' = [fptr EXCEPT ![t] = NULL]
    /\ waited' = [waited EXCEPT ![t] = {}]

(* ------------------------------------------------------------------ *)
(* my_malloc                                                            *)
(* ------------------------------------------------------------------ *)
\* size_t actual_size = size + sizeof(block_header);
actual_size(size) == size + HEADER_SIZE

\* a caller enters my_malloc(size); budget bounds the calls of a run
my_malloc_call(t, size, budget) ==
    /\ pc[t] = "idle"
    /\ ops < budget
    /\ ops' = ops + 1
    /\ pc' = [pc EXCEPT ![t] = "lock_init"]
    /\ req' = [req EXCEPT ![t] = size]
    /\ UNCHANGED <<globals, mutexes, lock, mem, seg_id, wseg, rc, fptr, live, waited,
                   spurious, last>>

\* pthread_mutex_lock(&init_mutex)
my_malloc_lock_init(t) ==
    /\ pc[t] = "lock_init"
    /\ ~mutex_destroyed
    /\ init_mutex = NoThread
    /\ init_mutex' = t
    /\ pc' = [pc EXCEPT ![t] = "init"]
    /\ UNCHANGED <<globals, round_robin_mutex, mutex_destroyed, lock, mem, locals, live,
                   waited, spurious, ops, last>>

\* lines 228-241 without the unlock of line 241
my_malloc_init_keeping_mutex(t) ==
    /\ pc[t] = "init"
    /\ IF ~initialized
       THEN /\ base_ptr' = HostBase
            /\ segments' = InitialSegments
            /\ mem' = InitialMem
            /\ lock' = [i \in SegIds |-> NoThread]
            /\ released' = FALSE
            /\ initialized' = TRUE
       ELSE UNCHANGED <<base_ptr, segments, mem, lock, released, initialized>>
    /\ pc' = [pc EXCEPT ![t] = "lock_rr"]
    /\ UNCHANGED <<current_segment, init_mutex, round_robin_mutex, mutex_destroyed,
                   locals, live, waited, spurious, ops, last>>

\* lines 228-241 without the test of initialized (line 228)
my_malloc_init_always(t) ==
    /\ pc[t] = "init"
    /\ base_ptr' = HostBase
    /\ segments' = InitialSegments
    /\ mem' = InitialMem
    /\ lock' = [i \in SegIds |-> NoThread]
    /\ released' = FALSE
    /\ initialized' = TRUE
    /\ init_mutex' = IF init_mutex = t THEN NoThread ELSE init_mutex
    /\ pc' = [pc EXCEPT ![t] = "lock_rr"]
    /\ UNCHANGED <<current_segment, round_robin_mutex, mutex_destroyed, locals, live,
                   waited, spurious, ops, last>>

\* lines 228-241 with the host malloc calls of initialize_allocator succeeding
my_malloc_init(t) ==
    /\ pc[t] = "init"
    /\ IF ~initialized
       THEN /\ base_ptr' = HostBase
            /\ segments' = InitialSegments
            /\ mem' = InitialMem
            /\ lock' = [i \in SegIds |-> NoThread]
            /\ released' = FALSE
            /\ initialized' = TRUE
       ELSE UNCHANGED <<base_ptr, segments, mem, lock, released, initialized>>
    /\ init_mutex' = IF init_mutex = t THEN NoThread ELSE init_mutex
    /\ pc' = [pc EXCEPT ![t] = "lock_rr"]
    /\ UNCHANGED <<current_segment, round_robin_mutex, mutex_destroyed, locals, live,
                   waited, spurious, ops, last>>

\* pthread_mutex_lock(&round_robin_mutex)
my_malloc_lock_rr(t) ==
    /\ pc[t] = "lock_rr"
    /\ ~mutex_destroyed
    /\ round_robin_mutex = NoThread
    /\ round_robin_mutex' = t
    /\ pc' = [pc EXCEPT ![t] = "rr"]
    /\ UNCHANGED <<globals, init_mutex, mutex_destroyed, lock, mem, locals, live,
                   waited, spurious, ops, last>>

\* lines 244-246 with the counter advanced modulo NUM_SEGMENTS
my_malloc_round_robin_all_segments(t) ==
    /\ pc[t] = "rr"
    /\ seg_id' = [seg_id EXCEPT ![t] = current_segment]
    /\ current_segment' = (current_segment + 1) % NUM_SEGMENTS
    /\ round_robin_mutex' = IF round_robin_mutex = t THEN NoThread ELSE round_robin_mutex
    /\ pc' = [pc EXCEPT ![t] = "lock_seg"]
    /\ UNCHANGED <<initialized, base_ptr, segments, released, init_mutex, mutex_destroyed,
                   lock, mem, req, wseg, rc, fptr, live, waited, spurious, ops, last>>

\* lines 244-246
my_malloc_round_robin(t) ==
    /\ pc[t] = "rr"
    /\ seg_id' = [seg_id EXCEPT ![t] = current_segment]
    /\ current_segment' = (current_segment + 1) % (NUM_SEGMENTS - 1)
    /\ round_robin_mutex' = IF round_robin_mutex = t THEN NoThread ELSE round_robin_mutex
    /\ pc' = [pc EXCEPT ![t] = "lock_seg"]
    /\ UNCHANGED <<initialized, base_ptr, segments, released, init_mutex, mutex_destroyed,
                   lock, mem, req, wseg, rc, fptr, live, waited, spurious, ops, last>>

\* pthread_mutex_lock(&((segments + seg_id)->lock)), line 248
my_malloc_lock_seg(t) ==
    /\ pc[t] = "lock_seg"
    /\ ~released
    /\ lock[seg_id[t]] = NoThread
    /\ lock' = [lock EXCEPT ![seg_id[t]] = t]
    /\ pc' = [pc EXCEPT ![t] = "first_fit"]
    /\ UNCHANGED <<globals, mutexes, mem, locals, live, waited, spurious, ops, last>>

\* lines 252/277 and 279-284: split, mark allocated, unlock, return ptr
Allocate(t, s, block, m) ==
    LET sp == split_block(m, segments[s].free_list, block, req[t])
        ptr == block + HEADER_SIZE
    IN /\ mem' = SetFree(sp.mem, block, FALSE)
       /\ segments' = [segments EXCEPT ![s].free_list = sp.free_list]
       /\ lock' = [lock EXCEPT ![s] = NoThread]
       /\ live' = live (+) SetToBag({<<ptr, req[t]>>})
       /\ Return(t, "my_malloc", req[t], ptr)

\* lines 258-267 with every request sent to the large segment
FirstWaitSegLarge(size) == NUM_SEGMENTS - 1

\* segment handed to the first wait_for_free_block of the call (lines 258-267)
FirstWaitSeg(size) == IF size <= LARGE_SIZE THEN 0 ELSE NUM_SEGMENTS - 1

\* lines 249-255: best fit in the round-robin segment
my_malloc_first_fit(t) ==
    /\ pc[t] = "first_fit"
    /\ LET block == find_best_fit(mem, segments[seg_id[t]].free_list, actual_size(req[t]))
       IN IF block # NULL
          THEN Allocate(t, seg_id[t], block, mem)
          ELSE /\ lock' = [lock EXCEPT ![seg_id[t]] = NoThread]
               /\ wseg' = [wseg EXCEPT ![t] = FirstWaitSeg(req[t])]
               /\ pc' = [pc EXCEPT ![t] = "w_lock"]
               /\ UNCHANGED <<mem, segments, live, last, req, seg_id, fptr, waited>>
    /\ UNCHANGED <<initialized, current_segment, base_ptr, released, mutexes,
                   rc, spurious, ops>>

(* ------------------------------------------------------------------ *)
(* wait_for_free_block, and the caller's handling of its result         *)
(* ------------------------------------------------------------------ *)
\* pthread_mutex_lock(&seg->lock), line 193
wait_lock(t) ==
    /\ pc[t] = "w_lock"
    /\ lock[wseg[t]] = NoThread
    /\ lock' = [lock EXCEPT ![wseg[t]] = t]
    /\ pc' = [pc EXCEPT ![t] = "w_loop"]
    /\ UNCHANGED <<globals, mutexes, mem, locals, live, waited, spurious, ops, last>>

\* wait_for_free_block without the size > TOTAL_SIZE test of line 204
OversizeRequestNever(size) == FALSE

\* line 204: the impossible-request test, on the size wait_for_free_block was given
OversizeRequest(size) == size > TOTAL_SIZE

\* wait_for_free_block without the unlock of line 210
HolderAtReturnKept(t, block) == t

\* line 210: holder of the segment lock when wait_for_free_block returns block
HolderAtReturn(t, block) == IF block = NULL THEN NoThread ELSE t

\* lines 259-274: wait_for_free_block returned NULL for segment wseg[t]
AfterMiss(t) ==
    /\ lock' = [lock EXCEPT ![wseg[t]] = HolderAtReturn(t, NULL)]
    /\ IF req[t] <= LARGE_SIZE /\ wseg[t] + 1 < NUM_SEGMENTS - 1
       THEN /\ wseg' = [wseg EXCEPT ![t] = wseg[t] + 1]
            /\ pc' = [pc EXCEPT ![t] = "w_lock"]
            /\ UNCHANGED <<last, req, seg_id, fptr, waited>>
       ELSE Return(t, "my_malloc", req[t], NULL)
    /\ UNCHANGED <<mem, segments, live>>

\* lines 203-206: best fit; on a hit lines 261-284 of the caller; on a miss
\* either the break of line 204 or the start of pthread_cond_timedwait
wait_loop(t) ==
    /\ pc[t] = "w_loop"
    /\ LET block == find_best_fit(mem, segments[wseg[t]].free_list, actual_size(req[t]))
       IN IF block # NULL
          THEN Allocate(t, wseg[t], block, SetSegId(mem, block, wseg[t]))
          ELSE IF OversizeRequest(actual_size(req[t]))
          THEN AfterMiss(t)
          ELSE /\ lock' = [lock EXCEPT ![wseg[t]] = NoThread]
               /\ pc' = [pc EXCEPT ![t] = "w_wait"]
               /\ waited' = [waited EXCEPT ![t] = @ \cup {wseg[t]}]
               /\ UNCHANGED <<mem, segments, live, last, req, seg_id, wseg, fptr>>
    /\ UNCHANGED <<initialized, current_segment, base_ptr, released, mutexes,
                   rc, spurious, ops>>

\* pthread_cond_timedwait: the deadline passes while the thread waits
wait_timeout(t) ==
    /\ pc[t] = "w_wait"
    /\ rc' = [rc EXCEPT ![t] = ETIMEDOUT]
    /\ pc' = [pc EXCEPT ![t] = "w_relock"]
    /\ UNCHANGED <<globals, mutexes, lock, mem, req, seg_id, wseg, fptr, live, waited,
                   spurious, ops, last>>

\* pthread_cond_timedwait: a spurious wakeup before the deadline
wait_spurious(t) ==
    /\ pc[t] = "w_wait"
    /\ spurious < MaxSpurious
    /\ spurious' = spurious + 1
    /\ rc' = [rc EXCEPT ![t] = 0]
    /\ pc' = [pc EXCEPT ![t] = "w_relock"]
    /\ UNCHANGED <<globals, mutexes, lock, mem, req, seg_id, wseg, fptr, live, waited,
                   ops, last>>

\* pthread_cond_timedwait re-acquires the lock and returns rc; lines 207-212
wait_relock(t) ==
    /\ pc[t] = "w_relock"
    /\ lock[wseg[t]] = NoThread
    /\ rc' = [rc EXCEPT ![t] = 0]
    /\ IF rc[t] = ETIMEDOUT
       THEN AfterMiss(t)
       ELSE /\ lock' = [lock EXCEPT ![wseg[t]] = t]
            /\ pc' = [pc EXCEPT ![t] = "w_loop"]
            /\ UNCHANGED <<mem, segments, live, last, req, seg_id, wseg, fptr, waited>>
    /\ UNCHANGED <<initialized, current_segment, base_ptr, released, mutexes,
                   spurious, ops>>

(* ------------------------------------------------------------------ *)
(* my_free                                                              *)
(* ------------------------------------------------------------------ *)
\* what a caller may pass: NULL or a live allocation (no double free)
Freeable == {<<NULL, 0>>} \cup BagToSet(live)

\* a caller enters my_free(a[1]) and gives the allocation a up
my_free_call(t, a, budget) ==
    /\ pc[t] = "idle"
    /\ ops < budget
    /\ ops' = ops + 1
    /\ fptr' = [fptr EXCEPT ![t] = a[1]]
    /\ live' = IF a[1] = NULL THEN live ELSE live (-) SetToBag({a})
    /\ pc' = [pc EXCEPT ![t] = "f_entry"]
    /\ UNCHANGED <<globals, mutexes, lock, mem, req, seg_id, wseg, rc, waited, spurious,
                   last>>

\* my_free without the NULL test of line 291
IsNullPtrNever(ptr) == FALSE

\* line 291
IsNullPtr(ptr) == ptr = NULL

\* lines 291-295: the NULL test, the header and its segment_id
my_free_entry(t) ==
    /\ pc[t] = "f_entry"
    /\ IF IsNullPtr(fptr[t])
       THEN Return(t, "my_free", fptr[t], NULL)
       ELSE /\ fptr' = [fptr EXCEPT ![t] = fptr[t] - HEADER_SIZE]
            /\ seg_id' = [seg_id EXCEPT ![t] =
                            IF fptr[t] - HEADER_SIZE \in DOMAIN mem
                            THEN mem[fptr[t] - HEADER_SIZE].segment_id ELSE 0]
            /\ pc' = [pc EXCEPT ![t] = "f_lock"]
            /\ UNCHANGED <<last, req, wseg, waited>>
    /\ UNCHANGED <<globals, mutexes, lock, mem, rc, live, spurious, ops>>

\* pthread_mutex_lock(&seg->lock), line 296
my_free_lock(t) ==
    /\ pc[t] = "f_lock"
    /\ ~released
    /\ initialized
    /\ lock[seg_id[t]] = NoThread
    /\ lock' = [lock EXCEPT ![seg_id[t]] = t]
    /\ pc' = [pc EXCEPT ![t] = "f_body"]
    /\ UNCHANGED <<globals, mutexes, mem, locals, live, waited, spurious, ops, last>>

\* lines 297-309: coalesce, broadcast the condition variable, unlock
my_free_body(t) ==
    /\ pc[t] = "f_body"
    /\ mem' = IF fptr[t] \in DOMAIN mem THEN Coalesce(mem, fptr[t]) ELSE mem
    /\ pc' = [u \in Threads |->
                IF u = t THEN "idle"
                ELSE IF pc[u] = "w_wait" /\ wseg[u] = seg_id[t] THEN "w_relock"
                ELSE pc[u]]
    /\ rc' = [u \in Threads |->
                IF u # t /\ pc[u] = "w_wait" /\ wseg[u] = seg_id[t] THEN 0 ELSE rc[u]]
    /\ lock' = [lock EXCEPT ![seg_id[t]] = NoThread]
    /\ last' = [op |-> "my_free", arg |-> fptr[t] + HEADER_SIZE, result |-> NULL]
    /\ req' = [req EXCEPT ![t] = 0]
    /\ seg_id' = [seg_id EXCEPT ![t] = 0]
    /\ wseg' = [wseg EXCEPT ![t] = 0]
    /\ fptr' = [fptr EXCEPT ![t] = NULL]
    /\ waited' = [waited EXCEPT ![t] = {}]
    /\ UNCHANGED <<globals, mutexes, live, spurious, ops>>

(* ------------------------------------------------------------------ *)
(* Specification: any interleaving of my_malloc and my_free calls, the  *)
(* host providing the backing region and the segment array              *)
(* ------------------------------------------------------------------ *)
Step(t) ==
    \/ my_malloc_lock_init(t)
    \/ my_malloc_init(t)
    \/ my_malloc_lock_rr(t)
    \/ my_malloc_round_robin(t)
    \/ my_malloc_lock_seg(t)
    \/ my_malloc_first_fit(t)
    \/ wait_lock(t)
    \/ wait_loop(t)
    \/ wait_timeout(t)
    \/ wait_spurious(t)
    \/ wait_relock(t)
    \/ my_free_entry(t)
    \/ my_free_lock(t)
    \/ my_free_body(t)

Next ==
    \E t \in Threads :
        \/ \E size \in Sizes : my_malloc_call(t, size, MaxOps)
        \/ \E a \in Freeable : my_free_call(t, a, MaxOps)
        \/ Step(t)

Spec == Init /\ [][Next]_vars

\* Few request sizes, and enough calls for the round robin to come back to
\* a small segment that is already in use
NextDeep ==
    \E t \in Threads :
        \/ \E size \in DeepSizes : my_malloc_call(t, size, MaxDeepOps)
        \/ \E a \in Freeable : my_free_call(t, a, MaxDeepOps)
        \/ Step(t)

SpecDeep == Init /\ [][NextDeep]_vars

\* The same under fair scheduling: a thread that can take a step eventually
\* takes one (a free mutex is eventually acquired, a timed wait eventually ends)
FairDeep == SpecDeep /\ \A t \in Threads : WF_vars(Step(t))

\* A single-threaded run: only thread 1 calls
NextSingle ==
    \/ \E size \in Sizes : my_malloc_call(1, size, MaxOps)
    \/ \E a \in Freeable : my_free_call(1, a, MaxOps)
    \/ Step(1)

SpecSingle == Init /\ [][NextSingle]_vars

(* ------------------------------------------------------------------ *)
(* free_base_memory, and calls made after it                            *)
(* ------------------------------------------------------------------ *)
\* lines 315-323, called as its comment in my_malloc.h asks: nothing
\* outstanding, nothing in flight.  initialized, segments and base_ptr are
\* left as they are.
free_base_memory(t, budget) ==
    /\ pc[t] = "idle"
    /\ \A u \in Threads : pc[u] = "idle"
    /\ live = EmptyBag
    /\ initialized
    /\ ~released
    /\ ops < budget
    /\ ops' = ops + 1
    /\ released' = TRUE
    /\ last' = [op |-> "free_base_memory", arg |-> 0, result |-> NULL]
    /\ UNCHANGED <<initialized, current_segment, base_ptr, segments, mutexes, lock, mem,
                   pc, locals, live, waited, spurious>>

\* lines 248 and 296 once the segment array has been released: the lock is a
\* destroyed mutex in freed memory.  The access faults, or the stale bytes are
\* still there and the call goes on with them.
use_after_release(t) ==
    /\ pc[t] \in {"lock_seg", "f_lock"}
    /\ released
    /\ \E outcome \in {"fault", "stale"} :
         IF outcome = "fault"
         THEN /\ pc' = [pc EXCEPT ![t] = "fault"]
              /\ UNCHANGED lock
         ELSE /\ lock[seg_id[t]] = NoThread
              /\ lock' = [lock EXCEPT ![seg_id[t]] = t]
              /\ pc' = [pc EXCEPT ![t] = IF pc[t] = "lock_seg" THEN "first_fit"
                                         ELSE "f_body"]
    /\ UNCHANGED <<globals, mutexes, mem, locals, live, waited, spurious, ops, last>>

NextTeardown ==
    \E t \in Threads :
        \/ \E size \in DeepSizes : my_malloc_call(t, size, MaxDeepOps)
        \/ \E a \in Freeable : my_free_call(t, a, MaxDeepOps)
        \/ Step(t)
        \/ free_base_memory(t, MaxDeepOps)
        \/ use_after_release(t)

SpecTeardown == Init /\ [][NextTeardown]_vars

(* ------------------------------------------------------------------ *)
(* Initialization when the host malloc fails                            *)
(* ------------------------------------------------------------------ *)
\* lines 230-238 with initialize_allocator returning NULL: malloc(TOTAL_SIZE)
\* failed (line 70), or the malloc of the segment array did (lines 72-74)
my_malloc_init_fail(t) ==
    /\ pc[t] = "init"
    /\ ~initialized
    /\ \E failed \in {"region", "array"} :
         base_ptr' = IF failed = "region" THEN NULL ELSE HostBase
    /\ segments' = <<>>
    /\ init_mutex' = IF init_mutex = t THEN NoThread ELSE init_mutex
    /\ mutex_destroyed' = TRUE
    /\ Return(t, "my_malloc", req[t], NULL)
    /\ UNCHANGED <<initialized, current_segment, released, round_robin_mutex, lock, mem,
                   rc, live, spurious, ops>>

\* lines 227 and 243 once line 233/234 destroyed the static mutexes: locking a
\* destroyed mutex either fails with EINVAL, which the code does not look at,
\* or (where pthread_mutex_destroy does nothing) locks it
lock_destroyed_mutex(t) ==
    /\ pc[t] \in {"lock_init", "lock_rr"}
    /\ mutex_destroyed
    /\ \E outcome \in {"EINVAL", "locked"} :
         IF outcome = "EINVAL"
         THEN UNCHANGED <<init_mutex, round_robin_mutex>>
         ELSE IF pc[t] = "lock_init"
         THEN /\ init_mutex = NoThread
              /\ init_mutex' = t
              /\ UNCHANGED round_robin_mutex
         ELSE /\ round_robin_mutex = NoThread
              /\ round_robin_mutex' = t
              /\ UNCHANGED init_mutex
    /\ pc' = [pc EXCEPT ![t] = IF pc[t] = "lock_init" THEN "init" ELSE "rr"]
    /\ UNCHANGED <<globals, mutex_destroyed, lock, mem, locals, live, waited, spurious,
                   ops, last>>

NextInitFail ==
    \E t \in Threads :
        \/ \E size \in DeepSizes : my_malloc_call(t, size, MaxDeepOps)
        \/ \E a \in Freeable : my_free_call(t, a, MaxDeepOps)
        \/ Step(t)
        \/ my_malloc_init_fail(t)
        \/ lock_destroyed_mutex(t)

SpecInitFail == Init /\ [][NextInitFail]_vars

(* ------------------------------------------------------------------ *)
(* find_best_fit on its own: any NULL-terminated list of up to          *)
(* MaxListLen blocks, free or not, and any requested size > 0           *)
(* ------------------------------------------------------------------ *)
MaxListLen == 3
MaxBlockSize == 3

\* where the k-th block of the list lies
BlockAddr(k) == HostBase + (k - 1) * (HEADER_SIZE + MaxBlockSize)

\* thread 1 is about to call find_best_fit(fptr[1], req[1])
InitBestFit ==
    /\ initialized = FALSE
    /\ current_segment = 0
    /\ init_mutex = NoThread
    /\ round_robin_mutex = NoThread
    /\ mutex_destroyed = FALSE
    /\ base_ptr = NULL
    /\ segments = <<>>
    /\ lock = [i \in SegIds |-> NoThread]
    /\ released = FALSE
    /\ \E n \in 0..MaxListLen :
         /\ \E sz \in [1..n -> 1..MaxBlockSize], fr \in [1..n -> BOOLEAN] :
              mem = [a \in {BlockAddr(k) : k \in 1..n} |->
                       LET k == CHOOSE j \in 1..n : BlockAddr(j) = a
                       IN [size |-> sz[k],
                           next |-> IF k < n THEN BlockAddr(k + 1) ELSE NULL,
                           prev |-> IF k > 1 THEN BlockAddr(k - 1) ELSE NULL,
                           free |-> fr[k], segment_id |-> 0]]
         /\ fptr = [t \in Threads |-> IF t = 1 /\ n > 0 THEN BlockAddr(1) ELSE NULL]
    /\ \E size \in 1..(MaxBlockSize + 1) :
         req = [t \in Threads |-> IF t = 1 THEN size ELSE 0]
    /\ pc = [t \in Threads |-> IF t = 1 THEN "best_fit" ELSE "idle"]
    /\ seg_id = [t \in Threads |-> 0]
    /\ wseg = [t \in Threads |-> 0]
    /\ rc = [t \in Threads |-> 0]
    /\ live = EmptyBag
    /\ waited = [t \in Threads |-> {}]
    /\ spurious = 0
    /\ ops = 0
    /\ last = NoCall

\* lines 120-136: the call and its return value
find_best_fit_call(t) ==
    /\ pc[t] = "best_fit"
    /\ last' = [op |-> "find_best_fit", arg |-> req[t],
                result |-> find_best_fit(mem, fptr[t], req[t])]
    /\ pc' = [pc EXCEPT ![t] = "idle"]
    /\ UNCHANGED <<globals, mutexes, lock, mem, locals, live, waited, spurious, ops>>

NextBestFit == \E t \in Threads : find_best_fit_call(t)

SpecBestFit == InitBestFit /\ [][NextBestFit]_vars

(* ------------------------------------------------------------------ *)
(* Well-formedness of the model itself                                  *)
(* ------------------------------------------------------------------ *)
PCs == {"idle", "lock_init", "init", "lock_rr", "rr", "lock_seg", "first_fit",
        "w_lock", "w_loop", "w_wait", "w_relock", "f_entry", "f_lock", "f_body", "fault",
        "best_fit"}

TypeOK ==
    /\ initialized \in BOOLEAN
    /\ current_segment \in 0..(NUM_SEGMENTS - 2)
    /\ init_mutex \in Threads \cup {NoThread}
    /\ round_robin_mutex \in Threads \cup {NoThread}
    /\ lock \in [SegIds -> Threads \cup {NoThread}]
    /\ pc \in [Threads -> PCs]
    /\ \A a \in DOMAIN mem :
         /\ mem[a].next \in DOMAIN mem \cup {NULL}
         /\ mem[a].prev \in DOMAIN mem \cup {NULL}
         /\ mem[a].segment_id \in SegIds

\* no two headers ever written share a byte
HeadersApart ==
    \A a, b \in DOMAIN mem : a < b => a + HEADER_SIZE <= b

\* no header lies in the payload of a live allocation, where the caller writes
NoHeaderInLivePayload ==
    \A x \in BagToSet(live) : \A a \in DOMAIN mem :
        a + HEADER_SIZE <= x[1] \/ x[1] + x[2] <= a

(* ------------------------------------------------------------------ *)
(* Vocabulary of the claims                                             *)
(* ------------------------------------------------------------------ *)
Live == BagToSet(live)
MallocPCs == {"lock_init", "init", "lock_rr", "rr", "lock_seg", "first_fit",
              "w_lock", "w_loop", "w_wait", "w_relock"}
FreePCs == {"f_entry", "f_lock", "f_body"}
AllIdle == \A t \in Threads : pc[t] = "idle"
SegEnd(i) == SegStart(i) + SegSize(i)
InSegment(p, i) == SegStart(i) <= p /\ p < SegEnd(i)
InRegion(p, size) ==
    /\ base_ptr # NULL
    /\ base_ptr <= p
    /\ p + size <= base_ptr + TOTAL_SIZE
Disjoint(a, b) == a[1] + a[2] <= b[1] \/ b[1] + b[2] <= a[1]
\* the header initialize_allocator writes at the start of segment i
FreshHeader(i) == [size |-> SegSize(i) - HEADER_SIZE, next |-> NULL, prev |-> NULL,
                   free |-> TRUE, segment_id |-> i]
\* the blocks reachable from a free_list head by next links, in list order
RECURSIVE ListFrom(_, _)
ListFrom(m, b) == IF b = NULL THEN <<>> ELSE <<b>> \o ListFrom(m, m[b].next)
FreeList(i) == ListFrom(mem, segments[i].free_list)

(* ------------------------------------------------------------------ *)
(* C1                                                                   *)
(* ------------------------------------------------------------------ *)
\* C1: every live allocation (p, s) was handed out once, lies inside the
\* backing region, and [p, p+s) is disjoint from every other live allocation.
C1_NoOverlap ==
    \A a \in Live :
        /\ CopiesIn(a, live) = 1
        /\ InRegion(a[1], a[2])
        /\ \A b \in Live : a # b => Disjoint(a, b)

\* two allocations live in the same segment, one right behind the other
C1_Witness ==
    \E a, b \in Live :
        /\ \E i \in SegIds : InSegment(a[1], i) /\ InSegment(b[1], i)
        /\ b[1] = a[1] + a[2] + HEADER_SIZE

(* ------------------------------------------------------------------ *)
(* C3                                                                   *)
(* ------------------------------------------------------------------ *)
\* C3: once every allocated block has been released (single-threaded run,
\* nothing in flight), each segment's free list is exactly one free block of
\* size segment size minus one header: the block written at initialization.
C3_FullReleaseRestores ==
    (initialized /\ AllIdle /\ live = EmptyBag) =>
        \A i \in SegIds :
            /\ FreeList(i) = <<SegStart(i)>>
            /\ mem[SegStart(i)].free
            /\ mem[SegStart(i)].size = SegSize(i) - HEADER_SIZE

(* ------------------------------------------------------------------ *)
(* C4                                                                   *)
(* ------------------------------------------------------------------ *)
\* C4: once the blocks of the large segment have all been released (no live
\* allocation in it, no release in flight), the best-fit test that a waiting
\* or a new request of more than half the large segment runs finds a block.
C4_ReleaseMakesAvailable ==
    ( /\ initialized
      /\ \A a \in Live : ~InSegment(a[1], LARGE_SEG)
      /\ \A t \in Threads : pc[t] \notin FreePCs
      /\ lock[LARGE_SEG] = NoThread )
    => find_best_fit(mem, segments[LARGE_SEG].free_list, actual_size(HalfPlusReq)) # NULL

\* a step in which thread t's own position changes
Moves(t) == pc'[t] # pc[t]
\* a step in which thread t's call returns
Returns(t) == pc[t] # "idle" /\ pc'[t] = "idle"

C8_LargeBypassesSmall ==
    [][\A t \in Threads :
         (req[t] > LARGE_SIZE /\ Moves(t) /\ initialized) =>
            /\ \A i \in 0..(NUM_SEGMENTS - 2) :
                 /\ segments'[i] = segments[i]
                 /\ \A a \in DOMAIN mem' :
                      InSegment(a, i) => (a \in DOMAIN mem /\ mem'[a] = mem[a])
            /\ (Returns(t) /\ last'.result # NULL) =>
                 InSegment(last'.result, LARGE_SEG)]_vars

(* ------------------------------------------------------------------ *)
(* C9                                                                   *)
(* ------------------------------------------------------------------ *)
ExactAlloc == <<SegStart(LARGE_SEG) + HEADER_SIZE, ExactLargeReq>>
LargeFresh ==
    /\ segments[LARGE_SEG].free_list = SegStart(LARGE_SEG)
    /\ mem[SegStart(LARGE_SEG)] = FreshHeader(LARGE_SEG)

\* C9: with only requests of ExactLargeReq using the large segment: (a) a
\* request that tests the freshly initialized large segment gets its block
\* whole, with no tail split off; (b) every such request that returns while
\* that block is live returns NULL; (c) once the block has been released the
\* large segment is as freshly initialized, so that (a) applies again.
C9_ExactFill ==
    /\ [](initialized =>
            ( ( /\ ~BagIn(ExactAlloc, live)
                /\ \A t \in Threads : pc[t] \notin FreePCs
                /\ lock[LARGE_SEG] = NoThread ) => LargeFresh ))
    /\ [][\A t \in Threads :
            (req[t] = ExactLargeReq /\ Moves(t)) =>
               /\ (pc[t] = "w_loop" /\ LargeFresh) =>
                     /\ Returns(t)
                     /\ last'.result = ExactAlloc[1]
                     /\ BagIn(ExactAlloc, live')
                     /\ mem'[SegStart(LARGE_SEG)] =
                          [FreshHeader(LARGE_SEG) EXCEPT !.free = FALSE]
               /\ (Returns(t) /\ BagIn(ExactAlloc, live)) => last'.result = NULL]_vars

\* a request that waited because the block was live has been woken by the
\* broadcast of the release, and the block has been handed out whole again
C9_Witness ==
    /\ BagIn(ExactAlloc, live)
    /\ spurious = 0
    /\ \E t \in Threads : pc[t] = "w_relock" /\ rc[t] = 0 /\ req[t] = ExactLargeReq

(* ------------------------------------------------------------------ *)
(* C10                                                                  *)
(* ------------------------------------------------------------------ *)
\* C10: my_free(NULL) returns at once: the step that runs it takes no lock,
\* wakes no waiter, and leaves block headers, segments, free lists, the
\* round-robin counter and the initialization state unchanged, whatever the
\* state (initialized or not).
C10_FreeNullNoOp ==
    [][\A t \in Threads :
         (pc[t] = "f_entry" /\ fptr[t] = NULL /\ Moves(t)) =>
            /\ Returns(t)
            /\ UNCHANGED <<mem, segments, lock, current_segment, initialized, base_ptr,
                           init_mutex, round_robin_mutex, live, rc>>
            /\ \A u \in Threads \ {t} : pc'[u] = pc[u]]_vars

\* my_free(NULL) has returned before the allocator was ever initialized
C10_Witness ==
    /\ ~initialized
    /\ last = [op |-> "my_free", arg |-> NULL, result |-> NULL]

(* ------------------------------------------------------------------ *)
(* C5                                                                   *)
(* ------------------------------------------------------------------ *)
HoldsNoLock(t) ==
    /\ init_mutex # t
    /\ round_robin_mutex # t
    /\ \A i \in SegIds : lock[i] # t

\* C5: under fair scheduling every my_malloc call eventually returns (no
\* thread stays inside my_malloc for ever); a call
\* with size <= LARGE_SIZE waits on the condition variables of small segments
\* only (at most NUM_SEGMENTS-1 of them), a call with size > LARGE_SIZE on
\* that of the large segment only; and a thread whose call has returned holds
\* no segment lock, nor the init or the round-robin mutex.
C5_MallocReturns ==
    /\ [](\A t \in Threads :
            /\ pc[t] \in MallocPCs =>
                 IF req[t] <= LARGE_SIZE
                 THEN /\ waited[t] \subseteq 0..(NUM_SEGMENTS - 2)
                      /\ Cardinality(waited[t]) <= NUM_SEGMENTS - 1
                 ELSE /\ waited[t] \subseteq {LARGE_SEG}
                      /\ Cardinality(waited[t]) <= 1
            /\ pc[t] = "idle" => HoldsNoLock(t))
    /\ \A t \in Threads : []<>(pc[t] \notin MallocPCs)

\* a small request has waited on every small segment and is about to return
C5_Witness ==
    \E t \in Threads :
        /\ req[t] = MidReq
        /\ waited[t] = 0..(NUM_SEGMENTS - 2)
        /\ pc[t] = "w_relock"
        /\ rc[t] = ETIMEDOUT

(* ------------------------------------------------------------------ *)
(* C2                                                                   *)
(* ------------------------------------------------------------------ *)
\* C2: after free_base_memory the next my_malloc call initializes again: a
\* call that has passed the initialization section (lines 227-241) works on
\* a backing region and a segment array that have not been released.
C2_TeardownThenReinit ==
    \A t \in Threads :
        pc[t] \in (MallocPCs \ {"lock_init", "init"}) => ~released

(* ------------------------------------------------------------------ *)
(* C7                                                                   *)
(* ------------------------------------------------------------------ *)
\* C7: a failed initialization leaves the allocator uninitialized, and a
\* later call goes through the initialization section and the round-robin
\* section normally: it holds init_mutex while it tests and sets
\* initialized, and round_robin_mutex while it advances current_segment.
C7_InitFailureRetried ==
    /\ (segments = <<>>) => ~initialized
    /\ \A t \in Threads :
         /\ pc[t] = "init" => init_mutex = t
         /\ pc[t] = "rr" => round_robin_mutex = t

(* ------------------------------------------------------------------ *)
(* Specification for the heap structure: requests that share the large  *)
(* segment, one of them consuming a block whole                         *)
(* ------------------------------------------------------------------ *)
HeapSizes == {SixReq, ExactLargeReq}

NextHeap ==
    \E t \in Threads :
        \/ \E size \in HeapSizes : my_malloc_call(t, size, MaxDeepOps)
        \/ \E a \in Freeable : my_free_call(t, a, MaxDeepOps)
        \/ Step(t)

SpecHeap == Init /\ [][NextHeap]_vars

\* the blocks of a segment in address order: the block at a, then the block
\* that starts where its payload ends, up to the end of the segment
RECURSIVE BlocksFrom(_, _, _)
BlocksFrom(m, a, end) ==
    IF a >= end \/ a \notin DOMAIN m THEN {}
    ELSE {a} \cup BlocksFrom(m, a + HEADER_SIZE + m[a].size, end)
Blocks(i) == BlocksFrom(mem, SegStart(i), SegEnd(i))
Adjacent(a, b) == b = a + HEADER_SIZE + mem[a].size
Occurrences(seq, x) == Cardinality({k \in 1..Len(seq) : seq[k] = x})
Unlocked(i) == initialized /\ lock[i] = NoThread

(* ------------------------------------------------------------------ *)
(* C11                                                                  *)
(* ------------------------------------------------------------------ *)
\* C11: whenever no thread holds a segment's lock, every block of the
\* segment whose free flag is set occurs exactly once in the list reachable
\* from the segment's free_list head.
C11_FreeBlocksListed ==
    \A i \in SegIds :
        Unlocked(i) =>
            \A b \in Blocks(i) : mem[b].free => Occurrences(FreeList(i), b) = 1

(* ------------------------------------------------------------------ *)
(* C12                                                                  *)
(* ------------------------------------------------------------------ *)
\* C12: whenever no thread holds a segment's lock, no two physically
\* adjacent blocks of the segment both have their free flag set.
C12_CoalescingComplete ==
    \A i \in SegIds :
        Unlocked(i) =>
            \A a, b \in Blocks(i) : Adjacent(a, b) => ~(mem[a].free /\ mem[b].free)

(* ------------------------------------------------------------------ *)
(* C13                                                                  *)
(* ------------------------------------------------------------------ *)
\* C13: whenever no thread holds a segment's lock, the header of a live
\* allocation of the segment is not reachable from the segment's free_list
\* head, and every block reachable from it has its free flag set.
C13_AllocatedUnlinked ==
    \A i \in SegIds :
        Unlocked(i) =>
            /\ \A a \in Live : Occurrences(FreeList(i), a[1] - HEADER_SIZE) = 0
            /\ \A k \in 1..Len(FreeList(i)) : mem[FreeList(i)[k]].free

(* ------------------------------------------------------------------ *)
(* C14                                                                  *)
(* ------------------------------------------------------------------ *)
InitMutex == <<"init_mutex", 0>>
RoundRobinMutex == <<"round_robin_mutex", 0>>
SegLock(i) == <<"lock", i>>
\* the mutexes thread t holds
Holds(t) ==
    (IF init_mutex = t THEN {InitMutex} ELSE {})
    \cup (IF round_robin_mutex = t THEN {RoundRobinMutex} ELSE {})
    \cup {SegLock(i) : i \in {j \in SegIds : lock[j] = t}}
\* the mutex thread t is inside pthread_mutex_lock for (or re-acquiring at
\* the end of pthread_cond_timedwait)
Wants(t) ==
    CASE pc[t] = "lock_init" -> {InitMutex}
      [] pc[t] = "lock_rr" -> {RoundRobinMutex}
      [] pc[t] \in {"lock_seg", "f_lock"} -> {SegLock(seg_id[t])}
      [] pc[t] \in {"w_lock", "w_relock"} -> {SegLock(wseg[t])}
      [] OTHER -> {}
BlockedBy(t, u) == Wants(t) \cap Holds(u) # {}

\* C14: a thread holds at most one mutex at a time, and none while it
\* acquires one (so at most one segment lock, never the init or round-robin
\* mutex together with a segment lock or with each other); no set of threads
\* exists in which every thread is blocked by a thread of the set.
C14_LockDiscipline ==
    /\ \A t \in Threads :
         /\ Cardinality(Holds(t)) <= 1
         /\ Wants(t) # {} => Holds(t) = {}
    /\ \A S \in (SUBSET Threads) \ {{}} :
         \E t \in S : \A u \in S : ~BlockedBy(t, u)

\* a thread re-acquiring a segment's lock at the end of its timed wait is
\* blocked by the thread that is releasing a block of that segment
C14_Witness ==
    \E t, u \in Threads :
        /\ BlockedBy(t, u)
        /\ pc[t] = "w_relock"
        /\ pc[u] = "f_body"

(* ------------------------------------------------------------------ *)
(* C15                                                                  *)
(* ------------------------------------------------------------------ *)
\* C15: the initialization section runs under init_mutex, one thread at a
\* time; the thread that finds initialized false installs the initial
\* segments and headers and sets the flag, every later thread changes
\* nothing there; the flag is never cleared; and a thread past the
\* initialization section (reading the segment array, taking a segment lock)
\* sees initialized true.
C15_OneShotInit ==
    /\ [](\A t \in Threads :
            /\ pc[t] = "init" => init_mutex = t
            /\ pc[t] \in (MallocPCs \ {"lock_init", "init"}) => initialized)
    /\ [][/\ initialized => initialized'
          /\ \A t \in Threads :
               (pc[t] = "init" /\ Moves(t)) =>
                  IF initialized
                  THEN UNCHANGED <<initialized, base_ptr, segments, mem, lock>>
                  ELSE /\ initialized'
                       /\ segments' = InitialSegments
                       /\ mem' = InitialMem]_vars

\* a second caller is in the initialization section while the first
\* caller's allocation is live
C15_Witness ==
    /\ live # EmptyBag
    /\ \E t \in Threads : pc[t] = "init" /\ initialized
    /\ \E u \in Threads : pc[u] = "lock_init"

(* ------------------------------------------------------------------ *)
(* C16                                                                  *)
(* ------------------------------------------------------------------ *)
\* C16: current_segment stays in 0..NUM_SEGMENTS-2; it changes only in the
\* round-robin section of a my_malloc call, which one thread at a time runs
\* while holding round_robin_mutex, and each run of the section hands the
\* call the current value and advances the counter by one modulo
\* NUM_SEGMENTS-1 (so k runs from 0 leave it at k mod (NUM_SEGMENTS-1), the
\* calls having received 0, 1, ..., k-1 modulo NUM_SEGMENTS-1 in the order
\* they took the mutex).
C16_RoundRobinAtomic ==
    /\ [](/\ current_segment \in 0..(NUM_SEGMENTS - 2)
          /\ \A t \in Threads : pc[t] = "rr" => round_robin_mutex = t)
    /\ [][/\ current_segment' # current_segment =>
               \E t \in Threads : pc[t] = "rr" /\ Moves(t)
          /\ \A t \in Threads :
               (pc[t] = "rr" /\ Moves(t)) =>
                  /\ seg_id'[t] = current_segment
                  /\ current_segment' = (current_segment + 1) % (NUM_SEGMENTS - 1)
                  /\ \A u \in Threads \ {t} : seg_id'[u] = seg_id[u]]_vars

\* four calls have allocated and the fifth has received index 0 again
C16_Witness ==
    /\ Cardinality(Live) = NUM_SEGMENTS - 1
    /\ current_segment = 1
    /\ \E t \in Threads : pc[t] = "lock_seg" /\ seg_id[t] = 0

(* ------------------------------------------------------------------ *)
(* C17                                                                  *)
(* ------------------------------------------------------------------ *)
WaitPCs == {"w_lock", "w_loop", "w_wait", "w_relock"}
SmallSegs == 0..(NUM_SEGMENTS - 2)

\* C17: a call my_malloc(s) with s <= LARGE_SIZE, after a miss on its
\* round-robin segment, goes through segments 0, 1, ... in ascending order
\* (when it is at segment i it has waited on each segment below i), never
\* passes the large segment to wait_for_free_block and never touches its
\* lock or free list; it takes the block of the first segment whose best
\* fit succeeds; a block it returns lies in a small segment; and when it
\* returns NULL it has waited on every small segment, whatever the large
\* segment holds.
C17_SmallOnlySmall ==
    /\ [](\A t \in Threads :
            (pc[t] \in WaitPCs /\ req[t] <= LARGE_SIZE) =>
               /\ wseg[t] \in SmallSegs
               /\ 0..(wseg[t] - 1) \subseteq waited[t]
               /\ waited[t] \subseteq 0..wseg[t])
    /\ [][\A t \in Threads :
            (pc[t] \in MallocPCs /\ req[t] <= LARGE_SIZE /\ initialized /\ Moves(t)) =>
               /\ segments'[LARGE_SEG] = segments[LARGE_SEG]
               /\ lock'[LARGE_SEG] = lock[LARGE_SEG]
               /\ ( /\ pc[t] = "w_loop"
                    /\ find_best_fit(mem, segments[wseg[t]].free_list,
                                     actual_size(req[t])) # NULL ) =>
                     /\ Returns(t)
                     /\ InSegment(last'.result, wseg[t])
               /\ (Returns(t) /\ last'.result # NULL) =>
                     \E i \in SmallSegs :
                        /\ InSegment(last'.result, i)
                        /\ mem'[last'.result - HEADER_SIZE].segment_id = i
               /\ (Returns(t) /\ last'.result = NULL) => waited[t] = SmallSegs]_vars

\* a small request has returned NULL while the large segment's free list
\* holds a block that fits it
C17_Witness ==
    /\ last = [op |-> "my_malloc", arg |-> MidReq, result |-> NULL]
    /\ find_best_fit(mem, segments[LARGE_SEG].free_list, actual_size(MidReq)) # NULL

(* ------------------------------------------------------------------ *)
(* C18                                                                  *)
(* ------------------------------------------------------------------ *)
\* the positions of the list whose block is free and large enough
Fitting(list, size) ==
    {k \in 1..Len(list) : mem[list[k]].free /\ mem[list[k]].size >= size}

\* C18: find_best_fit(free_list, size) returns NULL exactly when no block of
\* the list is free with size >= size; otherwise it returns such a block,
\* of minimal size among them, and the first in list order of those of
\* minimal size.  The call leaves every header as it was.
C18_BestFit ==
    /\ [](last.op = "find_best_fit" =>
            LET list == ListFrom(mem, fptr[1])
                fit == Fitting(list, last.arg)
            IN IF fit = {}
               THEN last.result = NULL
               ELSE \E k \in fit :
                      /\ last.result = list[k]
                      /\ \A j \in fit :
                           /\ mem[list[j]].size >= mem[list[k]].size
                           /\ mem[list[j]].size = mem[list[k]].size => k <= j)
    /\ [][\A t \in Threads : pc[t] = "best_fit" => mem' = mem]_vars

\* the list holds two fitting blocks of the same size, the first of them
\* returned, and a block that is large enough but not free
C18_Witness ==
    /\ last.op = "find_best_fit"
    /\ LET list == ListFrom(mem, fptr[1])
           fit == Fitting(list, last.arg)
       IN /\ \E j, k \in fit :
               /\ j < k
               /\ last.result = list[j]
               /\ mem[list[j]].size = mem[list[k]].size
          /\ \E k \in 1..Len(list) :
               ~mem[list[k]].free /\ mem[list[k]].size >= last.arg

(* ------------------------------------------------------------------ *)
(* C19                                                                  *)
(* ------------------------------------------------------------------ *)
ListHead(i) == segments[i].free_list

\* C19: once the allocator is initialized every segment's free_list is
\* non-NULL in every state, in particular where wait_for_free_block asserts
\* it (line 196), also after an allocation has consumed a block whole.
C19_HeadNeverNull ==
    initialized => \A i \in SegIds : ListHead(i) # NULL

\* wait_for_free_block runs on the large segment while the block that was
\* handed out whole is live
C19_Witness ==
    /\ BagIn(ExactAlloc, live)
    /\ \E t \in Threads : pc[t] = "w_loop" /\ wseg[t] = LARGE_SEG

(* ------------------------------------------------------------------ *)
(* C20                                                                  *)
(* ------------------------------------------------------------------ *)
\* the largest block size find_best_fit can be asked for with success
MaxFit(i) == IF mem[ListHead(i)].free THEN mem[ListHead(i)].size ELSE 0

OneTailBlock ==
    initialized =>
        \A i \in SegIds :
            /\ Len(FreeList(i)) = 1
            /\ ListHead(i) + HEADER_SIZE + mem[ListHead(i)].size = SegEnd(i)

\* the head only moves up, the listed block's size only shrinks, and a block
\* my_malloc returns is the head of its segment's list
HeadOnlyAdvances ==
    (initialized /\ initialized') =>
        \A i \in SegIds :
            /\ ListHead(i)' >= ListHead(i)
            /\ mem'[ListHead(i)'].size <= mem[ListHead(i)].size
            /\ \A t \in Threads :
                 ( /\ pc[t] \in MallocPCs
                   /\ Returns(t)
                   /\ last'.result # NULL
                   /\ InSegment(last'.result, i) ) =>
                     last'.result - HEADER_SIZE = ListHead(i)

====
